---- MODULE Spec2Model ----
(***************************************************************************)
(* Multi-chain wallet auditor: the address derivation engine               *)
(* (src/src/derivation.js) and the audit run around it (src/src/index.js)  *)
(* as state machines.  Spec drives deriveAddresses directly, call after    *)
(* call; SpecKey drives derivePrivateKey; SpecAudit is one run of the      *)
(* command-line tool, with the balance checkers (checkEVMChains, ...) and  *)
(* the report generator (src/src/report.js).                               *)
(*                                                                         *)
(* Cryptographic primitives (PBKDF2, BIP32 / SLIP-0010 child derivation,   *)
(* the address encodings) are symbolic: a seed, a key and an address are   *)
(* terms built from the mnemonic and the derivation path, so two addresses *)
(* are equal exactly when they were built the same way.  Whether a library *)
(* call throws is part of the model: ed25519-hd-key rejects every path     *)
(* with a non-hardened component, and badKey names the one (seed, family,  *)
(* path) for which child-key derivation yields an invalid key.             *)
(***************************************************************************)
EXTENDS Integers, Sequences, FiniteSets, TLC

\* Largest count a call is made with.
MaxCount == 2

\* The ${index} placeholder of a path template.
IDX == -1

\* A path component that is not a number.
NotANumber == -2

Range(list) == {list[k] : k \in 1..Len(list)}

(***************************************************************************)
(* Paths and the DERIVATION_PATHS table                                    *)
(***************************************************************************)
\* A path component n' (hardened) and n (not hardened).
H(n) == <<n, TRUE>>
N(n) == <<n, FALSE>>

\* Evaluation order of the properties of the returned object literal.
Families == <<"evm", "solana", "bitcoin", "stacks", "sui", "aptos">>
FamilySet == {Families[k] : k \in 1..Len(Families)}

DefaultPaths ==
  [ evm     |-> << <<H(44), H(60), H(0), N(0), N(IDX)>> >>,
    solana  |-> << <<H(44), H(501), H(IDX), H(0)>> >>,
    bitcoin |-> << <<H(84), H(0), H(0), N(0), N(IDX)>>,
                   <<H(44), H(0), H(0), N(0), N(IDX)>> >>,
    stacks  |-> << <<H(44), H(5757), H(0), N(0), N(IDX)>> >>,
    sui     |-> << <<H(44), H(784), H(IDX), H(0), H(0)>>,
                   <<H(44), H(784), H(0), H(0), H(IDX)>>,
                   <<H(44), H(784), H(0), N(0), N(IDX)>> >>,
    aptos   |-> << <<H(44), H(637), H(IDX), H(0), H(0)>>,
                   <<H(44), H(637), H(0), H(0), H(IDX)>> >> ]

\* pathFn(i): the template with ${index} replaced by i.
pathFn(template, index) ==
  [k \in 1..Len(template) |->
     IF template[k][1] = IDX THEN <<index, template[k][2]>> ELSE template[k]]

(***************************************************************************)
(* Mnemonics and bip39                                                     *)
(***************************************************************************)
Mnemonic(id, words, inWordlist, checksum) ==
  [id |-> id, words |-> words, inWordlist |-> inWordlist, checksum |-> checksum]

Mnemonics ==
  { Mnemonic("M12", 12, TRUE, TRUE),
    Mnemonic("M24", 24, TRUE, TRUE),
    Mnemonic("M15", 15, TRUE, TRUE),
    Mnemonic("BadChecksum12", 12, TRUE, FALSE),
    Mnemonic("UnknownWord12", 12, FALSE, TRUE),
    Mnemonic("Short11", 11, TRUE, TRUE) }

NoMnemonic == Mnemonic("none", 0, FALSE, FALSE)

\* bip39.validateMnemonic: mnemonicToEntropy succeeds, i.e. the word count is
\* a multiple of 3 giving 128..256 bits of entropy, every word is in the
\* wordlist and the checksum bits match.
validateMnemonic(m) ==
  /\ m.words \in {12, 15, 18, 21, 24}
  /\ m.inWordlist
  /\ m.checksum

\* bip39.mnemonicToSeedSync: PBKDF2 of the mnemonic, a term over its identity.
NoSeed == [pbkdf2 |-> "none"]
mnemonicToSeedSync(m) == [pbkdf2 |-> m.id]

(***************************************************************************)
(* State                                                                   *)
(***************************************************************************)
VARIABLES
  DERIVATION_PATHS, \* the path table: family -> sequence of templates
  badKey,           \* the (seed, family, path) whose child key is invalid
  pc,               \* "idle", or the step of the running deriveAddresses call
  seedPhrase,       \* argument of the running (or last) call
  count,            \* argument of the running (or last) call
  seed,             \* const seed of deriveAddresses, NoSeed until computed
  i,                \* loop index of the running derive<Family>Addresses
  t,                \* position of the inner loop in the family's templates
  addresses,        \* const addresses = [] of the running derive function
  seen,             \* const seen = new Set() of the running derive function
  result,           \* the object literal under construction: family -> list
  outcome,          \* how the last call ended: returned value or thrown error
  remembered,       \* an earlier finished call, kept for comparison
  later,            \* the running (or last) call began after that one
  attempted,        \* candidates the call has attempted, per family
  console,          \* lines written to the console since the call began
  files,            \* files written since the call (or the audit) began
  net,              \* network requests issued since the call (or audit) began
  apc,              \* position of the audit run (index.js), "none" outside one
  options,          \* options.addresses as parsed by program.action
  exitCode,         \* the process's exit code, -1 while it runs
  check,            \* position in chainChecks of auditWallet
  argv,             \* the --addresses option as given on the command line
  typed,            \* the answer read at the security prompt
  results,          \* const results of auditWallet: results and summary
  report,           \* what generateReport wrote to report.json
  calls,            \* the checks and the report auditWallet has called
  settled,          \* how each called check ended
  kpc,              \* "idle", or the step of the running derivePrivateKey call
  keyCall,          \* arguments and const seed of that call
  keyOutcome,       \* how the last derivePrivateKey call ended
  task,             \* checkEVMChains: the task of each address on one chain
  btc               \* checkBitcoin: the address being checked and its requests

reportVars == <<results, report, calls, settled>>

auditVars == <<apc, options, exitCode, check, argv, typed, reportVars>>

accessorVars == <<kpc, keyCall, keyOutcome>>

requestVars == <<task, btc>>

\* The state of the functions that are also run on their own.
unitVars == <<accessorVars, requestVars>>

engineVars == <<DERIVATION_PATHS, badKey, pc, seedPhrase, count, seed, i, t,
                addresses, seen, result, outcome, remembered, later,
                attempted>>

vars == <<DERIVATION_PATHS, badKey, pc, seedPhrase, count, seed, i, t,
          addresses, seen, result, outcome, remembered, later, console, files,
          net, apc, options, exitCode, check, argv, typed, results, report,
          calls, settled, kpc, keyCall, keyOutcome, task, btc, attempted>>

(***************************************************************************)
(* The libraries, symbolically                                             *)
(***************************************************************************)
Address(enc, s, path) == [enc |-> enc, seed |-> s, path |-> path]
NoAddress == Address("none", NoSeed, <<>>)

\* A library call chain either yields an address or throws.
Ok(a) == [ok |-> TRUE, address |-> a]
Thrown == [ok |-> FALSE, address |-> NoAddress]

NoBadKey == [seed |-> NoSeed, family |-> "none", path |-> <<>>]
invalidKey(s, f, path) == badKey = [seed |-> s, family |-> f, path |-> path]

\* ed25519-hd-key isValidPath: the path matches /^m(\/[0-9]+')+$/, every
\* component is hardened.
isValidPath(path) ==
  /\ Len(path) >= 1
  /\ \A k \in 1..Len(path) : path[k][1] >= 0 /\ path[k][2]

\* ethers derivePath and bip32 derivePath: every component is a number,
\* with or without the hardening mark.
isNumericPath(path) == \A k \in 1..Len(path) : path[k][1] >= 0

\* ed25519-hd-key derivePath(path, seedHex), then the family's key pair and
\* address encoding.
ed25519Address(enc, f, s, path) ==
  IF ~isValidPath(path) \/ invalidKey(s, f, path)
    THEN Thrown
    ELSE Ok(Address(enc, s, path))

\* ethers HDNodeWallet.derivePath(path).address
ethersAddress(enc, f, s, path) ==
  IF ~isNumericPath(path) \/ invalidKey(s, f, path)
    THEN Thrown
    ELSE Ok(Address(enc, s, path))

\* Fault: every candidate is encoded as legacy P2PKH.
paymentType_Legacy(path) == "p2pkh"

\* deriveBitcoinAddresses: the payment type is chosen by the path's purpose.
paymentType(path) ==
  IF path[1] = H(84) THEN "p2wpkh"
  ELSE IF path[1] = H(49) THEN "p2sh-p2wpkh"
  ELSE "p2pkh"

\* bip32 root.derivePath(path), then bitcoin.payments.<type>(...).address
bitcoinAddress(f, s, path) ==
  IF ~isNumericPath(path) \/ invalidKey(s, f, path)
    THEN Thrown
    ELSE Ok(Address(paymentType(path), s, path))

\* The body of the inner loop up to the address, per family.
candidate(f, s, path) ==
  CASE f = "evm"     -> ethersAddress("evm-checksum-hex", f, s, path)
    [] f = "solana"  -> ed25519Address("solana-base58", f, s, path)
    [] f = "bitcoin" -> bitcoinAddress(f, s, path)
    [] f = "stacks"  -> ethersAddress("SP+evm-hex", f, s, path)
    [] f = "sui"     -> ed25519Address("sui-hex", f, s, path)
    [] f = "aptos"   -> ed25519Address("aptos-authkey-hex", f, s, path)

\* Which derive functions wrap the loop body in try { } catch { continue }.
hasTryCatch(f) == f \in {"solana", "bitcoin", "sui", "aptos"}

\* Which derive functions keep a seen set (deriveStacksAddresses has none).
hasSeen(f) == f \in {"evm", "solana", "bitcoin", "sui", "aptos"}

(***************************************************************************)
(* Locals of a derive function                                             *)
(***************************************************************************)
\* Fault: one seen set shared by all derive functions and all calls.
NewSet_Shared(old) == old

\* const seen = new Set(): a fresh set per derive function call.
NewSet(old) == {}

\* Fault: the membership test never finds the address.
SeenHas_Never(s, address) == FALSE

\* seen.has(address)
SeenHas(s, address) == address \in s

\* Fault: unshift instead of push.
Push_Front(list, address) == <<address>> \o list

\* Fault: the list is replaced by the new address instead of extended.
Push_Overwrite(list, address) == <<address>>

\* addresses.push(address)
Push(list, address) == Append(list, address)

\* Fault: the line is dropped.
ConsoleLog_Silent(lines, line) == lines

\* console.log(line)
ConsoleLog(lines, line) == Append(lines, line)

Line(text, data) == [text |-> text, data |-> data]
LogDeriving == Line("Deriving addresses (all derivations are LOCAL)...", {})
LogStacks == Line("Stacks derivation: Using simplified implementation", {})

(***************************************************************************)
(* Outcomes of a call                                                      *)
(***************************************************************************)
EmptyObject == [f \in {} |-> <<>>]
NoOutcome == [status |-> "none", value |-> EmptyObject, error |-> "none"]
Returned(v) == [status |-> "returned", value |-> v, error |-> "none"]
Threw(e) == [status |-> "threw", value |-> EmptyObject, error |-> e]

\* No candidate attempted yet.
NoAttempts == [f \in FamilySet |-> 0]

NoCall ==
  [seedPhrase |-> NoMnemonic, count |-> 0, paths |-> DefaultPaths,
   outcome |-> NoOutcome]

Counts == 0..MaxCount

Position(f) == CHOOSE k \in 1..Len(Families) : Families[k] = f

(***************************************************************************)
(* deriveAddresses                                                         *)
(***************************************************************************)
\* A caller invokes deriveAddresses(m, n).  Once a call is remembered, the
\* calls compared with it are made with the same mnemonic.
Call(m, n) ==
  /\ pc = "idle"
  /\ apc = "none"
  /\ remembered.outcome.status = "none" \/ m = remembered.seedPhrase
  /\ pc' = "validate"
  /\ seedPhrase' = m
  /\ count' = n
  /\ seed' = NoSeed
  /\ result' = EmptyObject
  /\ outcome' = NoOutcome
  /\ console' = <<>>
  /\ files' = <<>>
  /\ net' = <<>>
  /\ later' = (remembered.outcome.status # "none")
  /\ attempted' = NoAttempts
  /\ UNCHANGED <<auditVars, unitVars>>
  /\ UNCHANGED <<DERIVATION_PATHS, badKey, i, t, addresses, seen, remembered>>

\* Fault: the result of the validation is ignored.
Validate_NoThrow ==
  /\ pc = "validate"
  /\ UNCHANGED <<auditVars, unitVars>>
  /\ pc' = "toSeed"
  /\ UNCHANGED <<attempted, DERIVATION_PATHS, badKey, seedPhrase, count, seed, i, t,
                 addresses, seen, result, outcome, remembered, later, console,
                 files, net>>

\* if (!bip39.validateMnemonic(seedPhrase)) throw new Error(...)
Validate ==
  /\ pc = "validate"
  /\ UNCHANGED <<auditVars, unitVars>>
  /\ IF validateMnemonic(seedPhrase)
       THEN /\ pc' = "toSeed"
            /\ UNCHANGED outcome
       ELSE /\ pc' = "idle"
            /\ outcome' = Threw("Invalid BIP39 seed phrase")
  /\ UNCHANGED <<attempted, DERIVATION_PATHS, badKey, seedPhrase, count, seed, i, t,
                 addresses, seen, result, remembered, later, console, files, net>>

\* const seed = bip39.mnemonicToSeedSync(seedPhrase)
ToSeed ==
  /\ pc = "toSeed"
  /\ UNCHANGED <<auditVars, unitVars>>
  /\ seed' = mnemonicToSeedSync(seedPhrase)
  /\ pc' = "log"
  /\ UNCHANGED <<attempted, DERIVATION_PATHS, badKey, seedPhrase, count, i, t, addresses,
                 seen, result, outcome, remembered, later, console, files, net>>

\* console.log("Deriving addresses ..."), then the object literal starts with
\* deriveEVMAddresses(seed, count) and its fresh locals.
LogAndEnter ==
  /\ pc = "log"
  /\ UNCHANGED <<auditVars, unitVars>>
  /\ console' = ConsoleLog(console, LogDeriving)
  /\ pc' = Families[1]
  /\ i' = 0
  /\ t' = 1
  /\ addresses' = <<>>
  /\ seen' = NewSet(seen)
  /\ UNCHANGED <<attempted, DERIVATION_PATHS, badKey, seedPhrase, count, seed, result,
                 outcome, remembered, later, files, net>>

\* Fault: the family's list is computed but its property is not set.
FinishFamily_NoProperty(f) ==
  /\ UNCHANGED result
  /\ console' = IF f = "stacks" THEN ConsoleLog(console, LogStacks) ELSE console
  /\ i' = 0
  /\ t' = 1
  /\ addresses' = <<>>
  /\ seen' = NewSet(seen)
  /\ IF Position(f) < Len(Families)
       THEN /\ pc' = Families[Position(f) + 1]
            /\ UNCHANGED outcome
       ELSE /\ pc' = "idle"
            /\ outcome' = Returned(result)
  /\ UNCHANGED <<attempted, DERIVATION_PATHS, badKey, seedPhrase, count, seed,
                 remembered, later, files, net>>

\* return addresses of derive<Family>Addresses: the family's property of the
\* object literal is set; the next derive function starts, or after the
\* last one deriveAddresses returns the object.
FinishFamily(f) ==
  /\ result' = result @@ (f :> addresses)
  /\ console' = IF f = "stacks" THEN ConsoleLog(console, LogStacks) ELSE console
  /\ i' = 0
  /\ t' = 1
  /\ addresses' = <<>>
  /\ seen' = NewSet(seen)
  /\ IF Position(f) < Len(Families)
       THEN /\ pc' = Families[Position(f) + 1]
            /\ UNCHANGED outcome
       ELSE /\ pc' = "idle"
            /\ outcome' = Returned(result')
  /\ UNCHANGED <<attempted, DERIVATION_PATHS, badKey, seedPhrase, count, seed,
                 remembered, later, files, net>>

\* An exception leaves the derive function and deriveAddresses.
Propagate(f) ==
  /\ pc' = "idle"
  /\ outcome' = Threw("derivation failed")
  /\ i' = 0
  /\ t' = 1
  /\ addresses' = <<>>
  /\ seen' = NewSet(seen)
  /\ attempted' = [attempted EXCEPT ![f] = @ + 1]
  /\ UNCHANGED <<DERIVATION_PATHS, badKey, seedPhrase, count, seed, result,
                 remembered, later, console, files, net>>

\* One pass of the inner loop body for candidate (i, t).  In
\* deriveBitcoinAddresses a payment without an address is skipped as well
\* (if (payment.address && !seen.has(payment.address))).
Candidate(f) ==
  LET path == pathFn(DERIVATION_PATHS[f][t], i)
      r == candidate(f, seed, path)
  IN IF ~r.ok
       THEN IF hasTryCatch(f)
              THEN /\ t' = t + 1
                   /\ attempted' = [attempted EXCEPT ![f] = @ + 1]
                   /\ UNCHANGED <<DERIVATION_PATHS, badKey, pc, seedPhrase,
                                  count, seed, i, addresses, seen, result,
                                  outcome, remembered, later, console, files, net>>
              ELSE Propagate(f)
       ELSE /\ t' = t + 1
            /\ IF hasSeen(f)
                 THEN IF \/ SeenHas(seen, r.address)
                         \/ f = "bitcoin" /\ r.address = NoAddress
                        THEN UNCHANGED <<addresses, seen>>
                        ELSE /\ addresses' = Push(addresses, r.address)
                             /\ seen' = seen \cup {r.address}
                 ELSE /\ addresses' = Push(addresses, r.address)
                      /\ UNCHANGED seen
            /\ attempted' = [attempted EXCEPT ![f] = @ + 1]
            /\ UNCHANGED <<DERIVATION_PATHS, badKey, pc, seedPhrase, count,
                           seed, i, result, outcome, remembered, later, console,
                           files, net>>

\* for (let i = 0; i < count; i++) for (const pathFn of DERIVATION_PATHS[f])
Loop(f) ==
  /\ pc = f
  /\ UNCHANGED <<auditVars, unitVars>>
  /\ IF i >= count
       THEN FinishFamily(f)
       ELSE IF t > Len(DERIVATION_PATHS[f])
              THEN /\ i' = i + 1
                   /\ t' = 1
                   /\ UNCHANGED <<attempted, DERIVATION_PATHS, badKey, pc, seedPhrase,
                                  count, seed, addresses, seen, result,
                                  outcome, remembered, later, console, files, net>>
              ELSE Candidate(f)

deriveEVMAddresses == Loop("evm")
deriveSolanaAddresses == Loop("solana")
deriveBitcoinAddresses == Loop("bitcoin")
deriveStacksAddresses == Loop("stacks")
deriveSuiAddresses == Loop("sui")
deriveAptosAddresses == Loop("aptos")

(***************************************************************************)
(* derivePrivateKey                                                        *)
(***************************************************************************)
\* The chains a caller asks a key for: the six of the table and one more.
Chains == FamilySet \cup {"tron"}

NoKeyCall ==
  [seedPhrase |-> NoMnemonic, chain |-> "none", index |-> 0, seed |-> NoSeed]

\* Key material: the private key of the node at a path under a seed.
PrivateKey(enc, s, path) == [enc |-> enc, seed |-> s, path |-> path]
NoKey == PrivateKey("none", NoSeed, <<>>)

NoKeyOutcome == [status |-> "none", key |-> NoKey, error |-> "none"]
KeyReturned(k) == [status |-> "returned", key |-> k, error |-> "none"]
KeyThrew(e) == [status |-> "threw", key |-> NoKey, error |-> e]

\* typeof DERIVATION_PATHS[chain]: an entry of the table is an array of
\* arrow functions, and a chain without an entry gives undefined.
typeOfEntry(c) ==
  IF c \in DOMAIN DERIVATION_PATHS THEN "object" ELSE "undefined"

\* DERIVATION_PATHS[chain](index): only a function can be called.
callEntry(c, k) ==
  IF typeOfEntry(c) = "function"
    THEN [ok |-> TRUE, path |-> pathFn(DERIVATION_PATHS[c], k)]
    ELSE [ok |-> FALSE, path |-> <<>>]

\* A caller invokes derivePrivateKey(m, c, k).
KeyCall(m, c, k) ==
  /\ kpc = "idle"
  /\ pc = "idle"
  /\ apc = "none"
  /\ kpc' = "called"
  /\ keyCall' = [seedPhrase |-> m, chain |-> c, index |-> k, seed |-> NoSeed]
  /\ keyOutcome' = NoKeyOutcome
  /\ UNCHANGED <<engineVars, auditVars, requestVars, console, files, net>>

\* The body of derivePrivateKey: the seed, the two branches on chain and the
\* throw after them.
derivePrivateKey ==
  /\ kpc = "called"
  /\ kpc' = "idle"
  /\ LET c == keyCall.chain
         s == mnemonicToSeedSync(keyCall.seedPhrase)
         path == callEntry(c, keyCall.index)
         notAFunction ==
           KeyThrew("TypeError: DERIVATION_PATHS[chain] is not a function")
     IN /\ keyCall' = [keyCall EXCEPT !.seed = s]
        /\ keyOutcome' =
             IF c \in {"evm", "stacks"}
               THEN IF ~path.ok THEN notAFunction
                    ELSE IF ~isNumericPath(path.path)
                      THEN KeyThrew("invalid path")
                      ELSE KeyReturned(PrivateKey("secp256k1", s, path.path))
             ELSE IF c \in {"solana", "sui", "aptos"}
               THEN IF ~path.ok THEN notAFunction
                    ELSE IF ~isValidPath(path.path)
                      THEN KeyThrew("Invalid derivation path")
                      ELSE KeyReturned(PrivateKey("ed25519", s, path.path))
             ELSE KeyThrew("Private key derivation not implemented for ${chain}")
  /\ UNCHANGED <<engineVars, auditVars, requestVars, console, files, net>>

(***************************************************************************)
(* The callers' side: comparing calls, editing the path table              *)
(***************************************************************************)
\* The caller keeps what a finished call gave, to compare a later call with.
Remember ==
  /\ pc = "idle"
  /\ apc = "none"
  /\ UNCHANGED <<auditVars, unitVars>>
  /\ outcome.status # "none"
  /\ remembered.outcome.status = "none"
  /\ remembered' = [seedPhrase |-> seedPhrase, count |-> count,
                    paths |-> DERIVATION_PATHS, outcome |-> outcome]
  /\ UNCHANGED <<attempted, DERIVATION_PATHS, badKey, pc, seedPhrase, count, seed, i, t,
                 addresses, seen, result, outcome, later, console, files,
                 net>>

\* A template with the hardening of its index component flipped.
Rehardened(template) ==
  [k \in 1..Len(template) |->
     IF template[k][1] = IDX
       THEN <<IDX, ~template[k][2]>>
       ELSE template[k]]

\* A template with a component that is not a number put before its index.
Misspelt(template) ==
  [k \in 1..Len(template) |->
     IF k = Len(template) - 1 THEN <<NotANumber, template[k][2]>>
     ELSE template[k]]

\* What one family's entry of the table is edited to: its templates removed,
\* each template changed to another path, or its first template misspelt.
Variants(f) ==
  { <<>>,
    [k \in 1..Len(DefaultPaths[f]) |-> Rehardened(DefaultPaths[f][k])],
    [DefaultPaths[f] EXCEPT ![1] = Misspelt(DefaultPaths[f][1])] }

\* The templates of one family are changed or removed between two calls;
\* outcome, which describes a call under the table as it is, starts afresh
\* (remembered keeps the earlier call with the table it ran under).
EditTemplates(f, v) ==
  /\ pc = "idle"
  /\ apc = "none"
  /\ UNCHANGED <<auditVars, unitVars>>
  /\ remembered.outcome.status # "none"
  /\ DERIVATION_PATHS = DefaultPaths
  /\ DERIVATION_PATHS' = [DERIVATION_PATHS EXCEPT ![f] = v]
  /\ outcome' = NoOutcome
  /\ UNCHANGED <<attempted, badKey, pc, seedPhrase, count, seed, i, t,
                 addresses, seen, result, remembered, later, console, files,
                 net>>

\* options.addresses: parseInt gives NaN or an integer.
Num(n) == [nan |-> FALSE, n |-> n]
NaN == [nan |-> TRUE, n |-> 0]
NoOptions == Num(0)

\* The text given for --addresses: an integer in decimal digits, an integer
\* followed by other characters ("1.5", "1abc"), or text that starts with
\* no digit.
Argument(kind, n) == [kind |-> kind, n |-> n]
NoArgument == Argument("none", 0)

\* parseInt(text, 10): the leading integer of the text, NaN without one.
parseInt(text) ==
  IF text.kind \in {"integer", "prefix"} THEN Num(text.n) ELSE NaN

\* What the user types at the prompt; trim() removes the padding.
Answer(text, padded) == [text |-> text, padded |-> padded]
Answers ==
  { Answer("I OWN THIS SEED PHRASE", FALSE),
    Answer("I OWN THIS SEED PHRASE", TRUE),
    Answer("i own this seed phrase", FALSE),
    Answer("", FALSE) }
trim(answer) == answer.text
NoAnswer == Answer("none", FALSE)

\* const results = { derivedAddresses, results: {}, summary: {...} }; the
\* derived addresses are the object deriveAddresses returned.
NoSummary ==
  [chainsWithFunds |-> <<>>, totalUsdEstimate |-> 0, errors |-> <<>>]
NoResults == [results |-> EmptyObject, summary |-> NoSummary]
NoReport == [written |-> FALSE, summary |-> NoSummary,
             addressesWithFunds |-> EmptyObject]

\* What provider.getBalance(address) settles with: a balance, or an error
\* with the words of its message and its code.
NoError == [message |-> {}, code |-> "none"]
Balance(b) == [ok |-> TRUE, balance |-> b, error |-> NoError]
Failure(message, code) ==
  [ok |-> FALSE, balance |-> "0", error |-> [message |-> message, code |-> code]]

\* error.message?.includes(word)
includes(message, word) == word \in message

\* What getNativeBalance returned for an address, before it has.
NoNative == [balance |-> "none", symbol |-> "none"]

\* limit(() => checkAddressOnChain(address, ...)) of one address: st is the
\* function's place in p-limit (queued, running, returned), rr the place of
\* its retryRequest call, i the loop variable of retryRequest, replies what
\* the calls of fn settled with, value and thrown what retryRequest settled
\* with, native what getNativeBalance returned.
NoTask ==
  [st |-> "queued", rr |-> "idle", i |-> 0, called |-> 0, waited |-> 0,
   replies |-> <<>>, value |-> "none", thrown |-> NoError, native |-> NoNative]

\* checkBitcoin: at is the position in the list of the address being
\* checked (0 before the call), api and i the API and the loop variable of
\* the running retryRequest, step the place in it, log what was requested,
\* answered and waited for each address, results the records so far.
NoBtc ==
  [list |-> <<>>, at |-> 0, api |-> "none", i |-> 0, step |-> "idle",
   log |-> <<>>, results |-> EmptyObject]

\* The seed and path whose child key is invalid, if any: a first-template
\* candidate of one family.
BadKeys ==
  {NoBadKey} \cup
  { [seed |-> mnemonicToSeedSync(m), family |-> f,
     path |-> pathFn(DefaultPaths[f][1], k)] :
      m \in {x \in Mnemonics : x.id = "M12"}, f \in FamilySet,
      k \in 0..(MaxCount - 1) }

Init ==
  /\ DERIVATION_PATHS = DefaultPaths
  /\ badKey \in BadKeys
  /\ pc = "idle"
  /\ seedPhrase = NoMnemonic
  /\ count = 0
  /\ seed = NoSeed
  /\ i = 0
  /\ t = 1
  /\ addresses = <<>>
  /\ seen = {}
  /\ result = EmptyObject
  /\ outcome = NoOutcome
  /\ remembered = NoCall
  /\ later = FALSE
  /\ console = <<>>
  /\ files = <<>>
  /\ net = <<>>
  /\ apc = "none"
  /\ options = NoOptions
  /\ exitCode = -1
  /\ check = 0
  /\ argv = NoArgument
  /\ typed = NoAnswer
  /\ results = NoResults
  /\ report = NoReport
  /\ calls = <<>>
  /\ settled = <<>>
  /\ kpc = "idle"
  /\ keyCall = NoKeyCall
  /\ keyOutcome = NoKeyOutcome
  /\ task = <<>>
  /\ btc = NoBtc
  /\ attempted = NoAttempts

Next ==
  \/ \E m \in Mnemonics, n \in Counts : Call(m, n)
  \/ Validate
  \/ ToSeed
  \/ LogAndEnter
  \/ deriveEVMAddresses
  \/ deriveSolanaAddresses
  \/ deriveBitcoinAddresses
  \/ deriveStacksAddresses
  \/ deriveSuiAddresses
  \/ deriveAptosAddresses
  \/ Remember
  \/ \E f \in FamilySet : \E v \in Variants(f) : EditTemplates(f, v)

Spec == Init /\ [][Next]_vars

\* The accessor alone: calls of derivePrivateKey, one after another.
NextKey ==
  \/ \E m \in Mnemonics, c \in Chains, k \in Counts : KeyCall(m, c, k)
  \/ derivePrivateKey

InitKey ==
  /\ Init
  /\ badKey = NoBadKey

SpecKey == InitKey /\ [][NextKey]_vars

(***************************************************************************)
(* The audit run (src/src/index.js).  A console line, a file and a request *)
(* carry the kinds of data interpolated into them; consecutive console.log *)
(* calls with fixed text are one line.  A balance checker is one step from *)
(* its call to its settling and gives a record per address; the report is  *)
(* one step.                                                               *)
(***************************************************************************)
\* The upper limit of --addresses.
MaxAddresses == 100

AddressOptions ==
  { Argument("text", 0), Argument("integer", MaxAddresses + 1),
    Argument("prefix", 1) }
  \cup {Argument("integer", n) : n \in Counts}

\* What readFileSync and JSON.parse find at options.seedFile.
SeedFile(kind, m) == [kind |-> kind, seed |-> m]
SeedFiles ==
  { SeedFile("missing", NoMnemonic),
    SeedFile("notJSON", NoMnemonic),
    SeedFile("noSeedString", NoMnemonic) }
  \cup {SeedFile("seed", m) : m \in Mnemonics}

\* Fault: the Sui check is given the Aptos list.
chainChecks_Swapped ==
  << [name |-> "EVM Chains", family |-> "evm"],
     [name |-> "Solana", family |-> "solana"],
     [name |-> "Bitcoin", family |-> "bitcoin"],
     [name |-> "Sui", family |-> "aptos"],
     [name |-> "Aptos", family |-> "aptos"],
     [name |-> "Stacks", family |-> "stacks"] >>

\* chainChecks: the name of each check and the family whose list it gets.
chainChecks ==
  << [name |-> "EVM Chains", family |-> "evm"],
     [name |-> "Solana", family |-> "solana"],
     [name |-> "Bitcoin", family |-> "bitcoin"],
     [name |-> "Sui", family |-> "sui"],
     [name |-> "Aptos", family |-> "aptos"],
     [name |-> "Stacks", family |-> "stacks"] >>

\* A file written, a request sent.
File(name, data) == [name |-> name, data |-> data]
Request(to, data, address) == [to |-> to, data |-> data, address |-> address]

InvalidCountLine ==
  Line("Invalid number of addresses. Must be between 1 and 100.", {})
BannerLine == Line("MULTI-CHAIN WALLET AUDITOR", {})
WarningLines ==
  Line("SECURITY WARNING ... To proceed, type exactly: I OWN THIS SEED PHRASE",
       {})
ConfirmedLine == Line("Confirmation received. Proceeding...", {})
RefusedLine == Line("Confirmation failed. Exiting for your safety.", {})
LoadingLine == Line("Loading seed phrase from seed.json...", {})

\* Fault: the phrase is logged instead of its length.
LoadedLine_Phrase == Line("Loaded ${seedPhrase} seed phrase", {"mnemonic"})

\* console.log(`Loaded ${seedPhrase.split(/\s+/).length}-word seed phrase`)
LoadedLine == Line("Loaded ${n}-word seed phrase", {"wordCount"})

DerivingLine ==
  Line("Deriving ${options.addresses} addresses for each blockchain...",
       {"addressCount"})

\* console.error(`Error loading seed phrase: ${error.message}`)
LoadErrorLine(file) ==
  CASE file.kind = "missing" ->
         Line("Error loading seed phrase: ENOENT ...", {"path"})
    [] file.kind = "notJSON" ->
         Line("Error loading seed phrase: Unexpected token ...",
              {"fileExcerpt"})
    [] file.kind = "noSeedString" ->
         Line("Error loading seed phrase: Invalid seed.json format ...", {})
    [] OTHER ->
         Line("Error loading seed phrase: Invalid seed phrase length ...",
              {"wordCount"})

\* loadSeedPhrase: the file parses, data.seed is a string of 12 or 24 words.
loadable(file) ==
  /\ file.kind = "seed"
  /\ file.seed.words \in {12, 24}

FatalLines ==
  << Line("Fatal error: ${error.message}", {"errorMessage"}),
     Line("${error.stack}", {"errorMessage", "stack"}) >>

\* console.log(`  ${chain}: ${addrs.length} addresses`) for every family.
DerivedLines(v) ==
  << Line("Derived Addresses Summary:", {}) >> \o
  [k \in 1..Len(Families) |->
     Line("${chain}: ${addrs.length} addresses", {"family", "addressCount"})]
  \o << Line("Checking balances across all blockchains...", {}) >>

\* What a check writes for its list: a request per address, a line per
\* address with funds or with an error, the closing lines.
CheckRequests(c, list) ==
  [k \in 1..Len(list) |-> Request(c.name, {"address"}, list[k])]

CheckingLine == Line("Checking ${check.name}...", {"checkName"})

CheckLines(c, list, how) ==
  ( CASE how = "funds" ->
           [k \in 1..Len(list) |->
              Line("${address}: ${balance}", {"address", "balance"})]
      [] how = "errors" ->
           [k \in 1..Len(list) |->
              Line("Error checking ${address}: ${error.message}",
                   {"address", "errorMessage"})]
      [] OTHER -> <<>> ) \o
  ( IF how = "threw"
      THEN << Line("${check.name} check failed: ${error.message}",
                   {"checkName", "errorMessage"}) >>
      ELSE << Line("Found funds in ${withFunds} address(es) / No funds found",
                   {"addressCount"}),
              Line("${check.name} check completed", {"checkName"}) >> )

\* How a check goes: the first address has funds and the second was used
\* but holds no native balance (it holds only tokens, only locked STX or
\* only past transactions), the query for the first address fails, or the
\* check as a whole throws.  The other addresses are empty.
CheckOutcomes == {"funds", "errors", "threw"}

\* What the network answers to the query for the k-th address of a list.
Query(how, k) ==
  CASE how = "funds" /\ k = 1 -> "funded"
    [] how = "funds" /\ k = 2 -> "used"
    [] how = "errors" /\ k = 1 -> "failed"
    [] OTHER -> "empty"

\* The position of an address in a list (the last one, as a later
\* assignment to the same key replaces an earlier one).
IndexOf(list, a) ==
  CHOOSE k \in 1..Len(list) :
    list[k] = a /\ \A j \in (k + 1)..Len(list) : list[j] # a

\* parseFloat of a balance string.
parseFloat(text) == IF text \in {"1", "1.0"} THEN 1 ELSE 0

\* EVM_CHAINS: two of its chain keys, with their nativeSymbol.
EVM_CHAINS == <<"ethereum", "bsc">>
nativeSymbol(chainKey) == IF chainKey = "ethereum" THEN "ETH" ELSE "BNB"

\* getNativeBalance: a failed request is caught and gives balance "0".
getNativeBalance(response, chainKey) ==
  IF response = "failed"
    THEN [balance |-> "0", symbol |-> nativeSymbol(chainKey),
          error |-> "getBalance failed"]
    ELSE [balance |-> IF response = "funded" THEN "1.0" ELSE "0.0",
          symbol |-> nativeSymbol(chainKey)]

\* checkAddressOnChain: the record of one address on one chain.  Its catch
\* is for createProvider, whose arguments are constants of EVM_CHAINS: no
\* answer of the network leads there.
checkAddressOnChain(address, chainKey, response) ==
  IF response = "noProvider"
    THEN [address |-> address, nativeBalance |-> "0",
          nativeSymbol |-> nativeSymbol(chainKey), tokens |-> <<>>,
          hasActivity |-> FALSE, error |-> "invalid provider"]
    ELSE LET nativeBalance == getNativeBalance(response, chainKey)
             tokens == <<>>
         IN [address |-> address, nativeBalance |-> nativeBalance.balance,
             nativeSymbol |-> nativeBalance.symbol, tokens |-> tokens,
             hasActivity |->
               parseFloat(nativeBalance.balance) > 0 \/ Len(tokens) > 0,
             usdValue |-> 0]

\* checkEVMChains: for every chain, every address of the list.
checkEVMChains(list, how) ==
  [chainKey \in Range(EVM_CHAINS) |->
     [a \in Range(list) |->
        checkAddressOnChain(a, chainKey, Query(how, IndexOf(list, a)))]]

\* The tokens found for an address: getSuiBalances and getAptosBalances
\* read them from the same answer as the native balance; checkSolana asks
\* for them only when solBalance > 0.
tokensOf(symbol, nativeBalance, response) ==
  IF response = "used" /\ (symbol # "SOL" \/ parseFloat(nativeBalance) > 0)
    THEN <<"token">>
    ELSE <<>>

\* The record of one address in checkSolana, checkSui and checkAptos.
tokenChainRecord(address, symbol, response) ==
  IF response = "failed"
    THEN [address |-> address, nativeBalance |-> "0",
          nativeSymbol |-> symbol, tokens |-> <<>>, hasActivity |-> FALSE,
          error |-> "request failed"]
    ELSE LET nativeBalance == IF response = "funded" THEN "1" ELSE "0"
             tokens == tokensOf(symbol, nativeBalance, response)
         IN [address |-> address, nativeBalance |-> nativeBalance,
             nativeSymbol |-> symbol, tokens |-> tokens,
             hasActivity |-> parseFloat(nativeBalance) > 0 \/ Len(tokens) > 0,
             usdValue |-> 0]

checkSolana(list, how) ==
  "solana" :>
    [a \in Range(list) |->
       tokenChainRecord(a, "SOL", Query(how, IndexOf(list, a)))]

checkSui(list, how) ==
  "sui" :>
    [a \in Range(list) |->
       tokenChainRecord(a, "SUI", Query(how, IndexOf(list, a)))]

checkAptos(list, how) ==
  "aptos" :>
    [a \in Range(list) |->
       tokenChainRecord(a, "APT", Query(how, IndexOf(list, a)))]

\* checkBitcoin: the record of one address.
bitcoinRecord(address, response) ==
  IF response = "failed"
    THEN [address |-> address, nativeBalance |-> "0", nativeSymbol |-> "BTC",
          hasActivity |-> FALSE, error |-> "All Bitcoin APIs failed"]
    ELSE LET balance == IF response = "funded" THEN "1" ELSE "0"
             transactions == IF response \in {"funded", "used"} THEN 1 ELSE 0
         IN [address |-> address, nativeBalance |-> balance,
             nativeSymbol |-> "BTC", transactions |-> transactions,
             hasActivity |-> parseFloat(balance) > 0 \/ transactions > 0,
             usdValue |-> 0]

checkBitcoin(list, how) ==
  "bitcoin" :>
    [a \in Range(list) |-> bitcoinRecord(a, Query(how, IndexOf(list, a)))]

\* checkStacks: the record of one address.
stacksRecord(address, response) ==
  IF response = "failed"
    THEN [address |-> address, nativeBalance |-> "0", nativeSymbol |-> "STX",
          hasActivity |-> FALSE, error |-> "request failed"]
    ELSE LET balance == IF response = "funded" THEN "1" ELSE "0"
             locked == IF response = "used" THEN "1" ELSE "0"
         IN [address |-> address, nativeBalance |-> balance,
             lockedBalance |-> locked, nativeSymbol |-> "STX",
             hasActivity |-> parseFloat(balance) + parseFloat(locked) > 0,
             usdValue |-> 0]

checkStacks(list, how) ==
  "stacks" :>
    [a \in Range(list) |-> stacksRecord(a, Query(how, IndexOf(list, a)))]

\* check.fn(): the checker of the entry, given the list of its family.
checkFn(c, v, how) ==
  CASE c.name = "EVM Chains" -> checkEVMChains(v[c.family], how)
    [] c.name = "Solana" -> checkSolana(v[c.family], how)
    [] c.name = "Bitcoin" -> checkBitcoin(v[c.family], how)
    [] c.name = "Sui" -> checkSui(v[c.family], how)
    [] c.name = "Aptos" -> checkAptos(v[c.family], how)
    [] c.name = "Stacks" -> checkStacks(v[c.family], how)

\* Object.keys(chainResult), in insertion order.
chainKeys(c) ==
  IF c.name = "EVM Chains" THEN EVM_CHAINS ELSE <<c.family>>

\* const hasFunds of the check loop.
hasFunds(chainResult) ==
  \E chain \in DOMAIN chainResult :
    \E a \in DOMAIN chainResult[chain] :
      parseFloat(chainResult[chain][a].nativeBalance) > 0

\* The chains of results.results in insertion order: the checks merge
\* their chain results in the order of chainChecks.
ChainOrder == EVM_CHAINS \o <<"solana", "bitcoin", "sui", "aptos", "stacks">>

familyOf(chain) == IF chain \in Range(EVM_CHAINS) THEN "evm" ELSE chain

\* Object.entries of an object: its keys in insertion order.
entries(order, object) == SelectSeq(order, LAMBDA k : k \in DOMAIN object)

RECURSIVE Sum(_)
Sum(numbers) ==
  IF numbers = <<>> THEN 0 ELSE Head(numbers) + Sum(Tail(numbers))

RECURSIVE Flatten(_)
Flatten(lists) ==
  IF lists = <<>> THEN <<>> ELSE Head(lists) \o Flatten(Tail(lists))

\* prices[data.nativeSymbol] || 0: getCryptoPrices gives {} when the lookup
\* fails, and has no price for some symbols.
price(symbol, pricesOk) ==
  IF pricesOk /\ symbol \in {"ETH", "BTC", "SOL", "APT", "SUI", "STX"}
    THEN 2 ELSE 0

\* calculateUSDValues sets data.usdValue of every record that has a
\* nativeBalance and a nativeSymbol.
calculateUSDValues(r, pricesOk) ==
  [chain \in DOMAIN r |->
     [a \in DOMAIN r[chain] |->
        LET data == r[chain][a]
        IN IF {"nativeBalance", "nativeSymbol"} \subseteq DOMAIN data
             THEN ("usdValue" :>
                     parseFloat(data.nativeBalance)
                       * price(data.nativeSymbol, pricesOk)) @@ data
             ELSE data]]

\* Object.entries(addresses) of a chain: its records in insertion order,
\* the order of the list the checker was given.
recordsOf(r, chain, v) ==
  LET list == SelectSeq(v[familyOf(chain)], LAMBDA a : a \in DOMAIN r[chain])
  IN [k \in 1..Len(list) |-> r[chain][list[k]]]

\* return totalUsd of calculateUSDValues.
totalUsd(r, v) ==
  LET chains == entries(ChainOrder, r)
  IN Sum([k \in 1..Len(chains) |->
            LET records == recordsOf(r, chains[k], v)
            IN Sum([j \in 1..Len(records) |->
                      IF {"nativeBalance", "nativeSymbol"}
                           \subseteq DOMAIN records[j]
                        THEN records[j].usdValue ELSE 0])])

\* generateSummary
generateSummary(r, v) ==
  LET chains == entries(ChainOrder, r)
      active(chain) ==
        SelectSeq(recordsOf(r, chain, v), LAMBDA data : data.hasActivity)
      failed(chain) ==
        SelectSeq(recordsOf(r, chain, v),
                  LAMBDA data : "error" \in DOMAIN data)
      withFunds == SelectSeq(chains, LAMBDA chain : Len(active(chain)) > 0)
  IN [ totalAddressesChecked |->
         Sum([k \in 1..Len(chains) |-> Len(recordsOf(r, chains[k], v))]),
       addressesWithFunds |->
         Sum([k \in 1..Len(chains) |-> Len(active(chains[k]))]),
       chainsChecked |-> Len(chains),
       chainsWithFunds |-> withFunds,
       totalUsdEstimate |-> 0,
       balancesByChain |->
         [chain \in Range(withFunds) |->
            [ addressesWithFunds |-> Len(active(chain)),
              totalUsdValue |->
                Sum([j \in 1..Len(active(chain)) |->
                       IF "usdValue" \in DOMAIN active(chain)[j]
                         THEN active(chain)[j].usdValue ELSE 0]) ]],
       errors |->
         Flatten([k \in 1..Len(chains) |->
                    [j \in 1..Len(failed(chains[k])) |->
                       [ chain |-> chains[k],
                         address |-> failed(chains[k])[j].address,
                         error |-> failed(chains[k])[j].error ]]]) ]

\* Fault: every record with activity is kept.
formatReport_ActivityOnly(data) ==
  LET r == data.results
      activeAddresses(chain) ==
        {a \in DOMAIN r[chain] : r[chain][a].hasActivity}
  IN [ written |-> TRUE,
       summary |-> data.summary,
       addressesWithFunds |->
         [chain \in {c \in DOMAIN r : activeAddresses(c) # {}} |->
            [a \in activeAddresses(chain) |-> r[chain][a]]] ]

\* formatReport: only the records with activity and a native balance above
\* zero are kept, and only the chains that keep a record.
formatReport(data) ==
  LET r == data.results
      activeAddresses(chain) ==
        { a \in DOMAIN r[chain] :
            /\ r[chain][a].hasActivity
            /\ parseFloat(r[chain][a].nativeBalance) > 0 }
  IN [ written |-> TRUE,
       summary |-> data.summary,
       addressesWithFunds |->
         [chain \in {c \in DOMAIN r : activeAddresses(c) # {}} |->
            [a \in activeAddresses(chain) |-> r[chain][a]]] ]

ReportFiles ==
  << File("report.json",
          {"timestamp", "chainName", "address", "balance", "usd",
           "addressCount", "checkName", "errorMessage"}),
     File("report-summary.txt",
          {"timestamp", "chainName", "usd", "addressCount", "checkName",
           "errorMessage"}) >>

ReportLines(pricesOk) ==
  << Line("Generating final report...", {}),
     Line("Fetching cryptocurrency prices...", {}) >> \o
  ( IF pricesOk THEN <<>>
    ELSE << Line("Could not fetch crypto prices from CoinGecko", {}) >> ) \o
  << Line("Calculating USD values...", {}),
     Line("Report saved to report.json", {}),
     Line("Summary saved to report-summary.txt", {}) >>

SummaryLines ==
  << Line("AUDIT SUMMARY", {}),
     Line("Completed at: ${results.checkedAt}", {"timestamp"}),
     Line("Chains with funds: ${n}", {"addressCount"}),
     Line("FUNDS DETECTED ON ${chain} / No funds detected", {"chainName"}),
     Line("Errors encountered: ${err.chain}: ${err.error}",
          {"checkName", "errorMessage"}),
     Line("Estimated total USD value: ${usd}", {"usd"}),
     Line("Full report saved to: report.json", {}) >>

\* process.exit(code)
Exit(code) ==
  /\ apc' = "exited"
  /\ exitCode' = code

\* program.action: options.addresses is parsed and checked, auditWallet is
\* called and prints the banner.
ProgramAction ==
  /\ apc = "cli"
  /\ options' = parseInt(argv)
  /\ IF options'.nan \/ options'.n < 1 \/ options'.n > MaxAddresses
       THEN /\ console' = Append(console, InvalidCountLine)
            /\ Exit(1)
       ELSE /\ console' = Append(console, BannerLine)
            /\ apc' = "prompt"
            /\ UNCHANGED exitCode
  /\ UNCHANGED <<engineVars, unitVars, files, net, check, argv, typed,
                 reportVars>>

\* Fault: the result of the prompt is not tested.
PromptSecurityConfirmation_Unchecked(answer) ==
  /\ apc = "prompt"
  /\ typed' = answer
  /\ console' = console \o <<WarningLines, ConfirmedLine>>
  /\ apc' = "load"
  /\ UNCHANGED <<engineVars, unitVars, files, net, options, exitCode,
                 check, argv, reportVars>>

\* promptSecurityConfirmation and the test of its result in auditWallet.
PromptSecurityConfirmation(answer) ==
  /\ apc = "prompt"
  /\ typed' = answer
  /\ IF trim(answer) = "I OWN THIS SEED PHRASE"
       THEN /\ console' = console \o <<WarningLines, ConfirmedLine>>
            /\ apc' = "load"
            /\ UNCHANGED exitCode
       ELSE /\ console' = console \o <<WarningLines, RefusedLine>>
            /\ Exit(0)
  /\ UNCHANGED <<engineVars, unitVars, files, net, options, check, argv,
                 reportVars>>

\* loadSeedPhrase, the two lines after it, and the call of deriveAddresses.
LoadSeedPhrase(file) ==
  /\ apc = "load"
  /\ IF loadable(file)
       THEN /\ console' =
                 console \o <<LoadingLine, LoadedLine, DerivingLine>>
            /\ apc' = "deriving"
            /\ pc' = "validate"
            /\ seedPhrase' = file.seed
            /\ count' = options.n
            /\ seed' = NoSeed
            /\ result' = EmptyObject
            /\ outcome' = NoOutcome
            /\ UNCHANGED exitCode
       ELSE /\ console' = console \o <<LoadingLine, LoadErrorLine(file)>>
            /\ Exit(1)
            /\ UNCHANGED <<pc, seedPhrase, count, seed, result, outcome>>
  /\ UNCHANGED <<attempted, DERIVATION_PATHS, badKey, i, t, addresses, seen, remembered,
                 later, files, net, options, check, argv, typed,
                 reportVars, unitVars>>

\* Fault: the error of deriveAddresses is swallowed and the audit goes on.
AfterDerive_Continue ==
  /\ apc = "deriving"
  /\ pc = "idle"
  /\ console' = console \o DerivedLines(outcome.value)
  /\ apc' = "check"
  /\ check' = 1
  /\ UNCHANGED <<engineVars, unitVars, files, net, options, exitCode,
                 argv, typed, reportVars>>

\* deriveAddresses has ended: its error reaches the catch of program.action,
\* or auditWallet prints the derived addresses summary and starts the checks.
AfterDerive ==
  /\ apc = "deriving"
  /\ pc = "idle"
  /\ IF outcome.status = "threw"
       THEN /\ console' = console \o FatalLines
            /\ Exit(1)
            /\ UNCHANGED check
       ELSE /\ console' = console \o DerivedLines(outcome.value)
            /\ apc' = "check"
            /\ check' = 1
            /\ UNCHANGED exitCode
  /\ UNCHANGED <<engineVars, unitVars, files, net, options, argv,
                 typed, reportVars>>

\* The loop over chainChecks reaches an entry: its line is printed and
\* check.fn() is called.
StartCheck ==
  /\ apc = "check"
  /\ console' = Append(console, CheckingLine)
  /\ calls' = Append(calls, chainChecks[check].name)
  /\ apc' = "awaitCheck"
  /\ UNCHANGED <<engineVars, unitVars, files, net, options, exitCode,
                 check, argv, typed, results, report, settled>>

\* Fault: no catch around the check; its error ends auditWallet.
SettleCheck_Rethrow(how) ==
  /\ apc = "awaitCheck"
  /\ how = "threw"
  /\ console' = console \o FatalLines
  /\ settled' =
       Append(settled, [name |-> chainChecks[check].name, status |-> how])
  /\ Exit(1)
  /\ UNCHANGED <<engineVars, unitVars, files, net, options, check, argv,
                 typed, results, report, calls>>

\* await check.fn() settles: the chain result is merged into
\* results.results and its chains are listed when it has funds, or the
\* error is caught and recorded; then the next entry, or the report.
SettleCheck(how) ==
  /\ apc = "awaitCheck"
  /\ LET c == chainChecks[check]
         list == outcome.value[c.family]
         chainResult == checkFn(c, outcome.value, how)
     IN /\ net' = net \o CheckRequests(c, list)
        /\ console' = console \o CheckLines(c, list, how)
        /\ settled' = Append(settled, [name |-> c.name, status |-> how])
        /\ results' =
             IF how = "threw"
               THEN [results EXCEPT
                       !.summary.errors =
                         Append(@, [chain |-> c.name,
                                    error |-> "check failed"])]
               ELSE [results EXCEPT
                       !.results = chainResult @@ @,
                       !.summary.chainsWithFunds =
                         IF hasFunds(chainResult)
                           THEN @ \o chainKeys(c)
                           ELSE @]
  /\ IF check < Len(chainChecks)
       THEN /\ check' = check + 1
            /\ apc' = "check"
       ELSE /\ check' = 0
            /\ apc' = "report"
  /\ UNCHANGED <<engineVars, unitVars, files, options, exitCode, argv,
                 typed, report, calls>>

\* generateReport: the price lookup, the USD values, the summary, which
\* replaces results.summary, report.json and report-summary.txt.
GenerateReport(pricesOk) ==
  /\ apc = "report"
  /\ calls' = Append(calls, "generateReport")
  /\ net' = Append(net, Request("CoinGecko", {"coinNames"}, NoAddress))
  /\ console' = console \o ReportLines(pricesOk)
  /\ LET valued == calculateUSDValues(results.results, pricesOk)
         summary ==
           [generateSummary(valued, outcome.value) EXCEPT
              !.totalUsdEstimate = totalUsd(valued, outcome.value)]
     IN /\ results' = [results |-> valued, summary |-> summary]
        /\ report' = formatReport(results')
  /\ files' = files \o ReportFiles
  /\ apc' = "summary"
  /\ UNCHANGED <<engineVars, unitVars, options, exitCode, check, argv,
                 typed, settled>>

\* The audit summary is printed and the process ends.
PrintSummary ==
  /\ apc = "summary"
  /\ console' = console \o SummaryLines
  /\ apc' = "done"
  /\ exitCode' = 0
  /\ UNCHANGED <<engineVars, unitVars, files, net, options, check, argv,
                 typed, reportVars>>

\* In an audit: no invalid child key, or the one of the first EVM
\* candidate.
AuditBadKeys ==
  { k \in BadKeys :
      \/ k = NoBadKey
      \/ /\ k.family = "evm"
         /\ k.path = pathFn(DefaultPaths[k.family][1], 0) }

InitAudit ==
  /\ DERIVATION_PATHS = DefaultPaths
  /\ badKey \in AuditBadKeys
  /\ pc = "idle"
  /\ seedPhrase = NoMnemonic
  /\ count = 0
  /\ seed = NoSeed
  /\ i = 0
  /\ t = 1
  /\ addresses = <<>>
  /\ seen = {}
  /\ result = EmptyObject
  /\ outcome = NoOutcome
  /\ remembered = NoCall
  /\ later = FALSE
  /\ console = <<>>
  /\ files = <<>>
  /\ net = <<>>
  /\ apc = "cli"
  /\ options = NoOptions
  /\ exitCode = -1
  /\ check = 0
  /\ argv \in AddressOptions
  /\ typed = NoAnswer
  /\ results = NoResults
  /\ report = NoReport
  /\ calls = <<>>
  /\ settled = <<>>
  /\ kpc = "idle"
  /\ keyCall = NoKeyCall
  /\ keyOutcome = NoKeyOutcome
  /\ task = <<>>
  /\ btc = NoBtc
  /\ attempted = NoAttempts

NextAudit ==
  \/ ProgramAction
  \/ \E answer \in Answers : PromptSecurityConfirmation(answer)
  \/ \E file \in SeedFiles : LoadSeedPhrase(file)
  \/ Validate
  \/ ToSeed
  \/ LogAndEnter
  \/ deriveEVMAddresses
  \/ deriveSolanaAddresses
  \/ deriveBitcoinAddresses
  \/ deriveStacksAddresses
  \/ deriveSuiAddresses
  \/ deriveAptosAddresses
  \/ AfterDerive
  \/ StartCheck
  \/ \E how \in CheckOutcomes : SettleCheck(how)
  \/ \E pricesOk \in BOOLEAN : GenerateReport(pricesOk)
  \/ PrintSummary

SpecAudit == InitAudit /\ [][NextAudit]_vars

(***************************************************************************)
(* checkEVMChains on one chain (src/src/derivation.js, the EVM checker):   *)
(* every address of the list is given to p-limit, and its                  *)
(* checkAddressOnChain waits in getNativeBalance for the first of          *)
(* retryRequest and the 15 s timer.                                        *)
(***************************************************************************)
\* const limit = pLimit(3)
Concurrency == 3

\* maxRetries = 2, the default of the EVM retryRequest and the value of its
\* only call.
MaxRetries == 2

\* Longest list checkEVMChains is called with.
MaxEvmAddresses == 4

\* The errors retryRequest rethrows without another attempt.
isAuthError(error) ==
  \/ includes(error.message, "Unauthorized")
  \/ includes(error.message, "API key")
  \/ error.code = "BAD_DATA"

\* Fault: no attempt is taken for the last one.
isLastAttempt_Never(k, maxRetries) == FALSE

\* i === maxRetries - 1
isLastAttempt(k, maxRetries) == k = maxRetries - 1

\* What a call of provider.getBalance for the k-th address can settle with.
\* Only the first address meets the authentication errors and a balance
\* above zero; the fetch of the others gives zero or is aborted.
Replies(k) ==
  IF k = 1
    THEN { Balance("1.0"), Balance("0.0"),
           Failure({"request", "timeout"}, "TIMEOUT"),
           Failure({"401", "Unauthorized"}, "SERVER_ERROR"),
           Failure({"missing", "API key"}, "SERVER_ERROR"),
           Failure({"could", "not", "decode", "result"}, "BAD_DATA") }
    ELSE { Balance("0.0"), Failure({"request", "timeout"}, "TIMEOUT") }

\* p-limit's activeCount, and the balance requests issued and not settled.
activeCount == Cardinality({k \in DOMAIN task : task[k].st = "running"})
InFlight == Cardinality({k \in DOMAIN task : task[k].rr = "inflight"})

\* getNativeBalance returns, and checkAddressOnChain with it: p-limit has a
\* free slot again.
Returns(tk, response) ==
  [tk EXCEPT !.st = "returned",
             !.native = getNativeBalance(response, EVM_CHAINS[1])]

\* The top of retryRequest's loop: fn is called while i < maxRetries, and
\* after the loop the function ends without a value.
NextAttempt(tk) ==
  IF tk.i < MaxRetries
    THEN [tk EXCEPT !.rr = "inflight", !.called = @ + 1]
    ELSE [tk EXCEPT !.rr = "resolved", !.value = "undefined"]

\* A settled retryRequest settles the race of a getNativeBalance that still
\* waits: the balance is formatted, or the error is caught.
AfterRetry(tk) ==
  IF tk.st = "running" /\ tk.rr \in {"resolved", "rejected"}
    THEN Returns(tk,
                 IF tk.rr = "rejected" \/ tk.value = "undefined" THEN "failed"
                 ELSE IF parseFloat(tk.value) > 0 THEN "funded"
                 ELSE "empty")
    ELSE tk

\* const promises = addresses.map((address) => limit(...)) for a list of n
\* addresses: n functions are queued.
CheckEVMChains(n) ==
  /\ task = <<>>
  /\ pc = "idle"
  /\ apc = "none"
  /\ kpc = "idle"
  /\ task' = [k \in 1..n |-> NoTask]
  /\ UNCHANGED <<engineVars, auditVars, accessorVars, btc, console, files, net>>

\* p-limit runs the function at the head of its queue when fewer than three
\* are running: checkAddressOnChain, getNativeBalance and retryRequest
\* start, up to the first call of fn.
LimitRun(k) ==
  /\ k \in DOMAIN task
  /\ task[k].st = "queued"
  /\ \A j \in 1..(k - 1) : task[j].st # "queued"
  /\ activeCount < Concurrency
  /\ task' = [task EXCEPT ![k] = NextAttempt([@ EXCEPT !.st = "running"])]
  /\ UNCHANGED <<engineVars, auditVars, accessorVars, btc, console, files, net>>

\* return await fn() of retryRequest, and its catch.
GetBalanceSettles(k, reply) ==
  /\ k \in DOMAIN task
  /\ task[k].rr = "inflight"
  /\ LET tk == [task[k] EXCEPT !.replies = Append(@, reply)]
         after ==
           IF reply.ok
             THEN [tk EXCEPT !.rr = "resolved", !.value = reply.balance]
             ELSE IF \/ isLastAttempt(tk.i, MaxRetries)
                     \/ isAuthError(reply.error)
               THEN [tk EXCEPT !.rr = "rejected", !.thrown = reply.error]
               ELSE [tk EXCEPT !.rr = "delay"]
     IN task' = [task EXCEPT ![k] = AfterRetry(after)]
  /\ UNCHANGED <<engineVars, auditVars, accessorVars, btc, console, files, net>>

\* The delay of retryRequest has passed: i++ and the next pass of the loop.
DelayElapsed(k) ==
  /\ k \in DOMAIN task
  /\ task[k].rr = "delay"
  /\ task' =
       [task EXCEPT ![k] =
          AfterRetry(NextAttempt([@ EXCEPT !.waited = @ + 1, !.i = @ + 1]))]
  /\ UNCHANGED <<engineVars, auditVars, accessorVars, btc, console, files, net>>

\* The 15 s timer of getNativeBalance wins the race; retryRequest goes on.
\* A fetch is aborted after 10 s (createProvider), so the first call of fn
\* has settled by then.
RaceTimeout(k) ==
  /\ k \in DOMAIN task
  /\ task[k].st = "running"
  /\ task[k].replies # <<>>
  /\ task' = [task EXCEPT ![k] = Returns(@, "failed")]
  /\ UNCHANGED <<engineVars, auditVars, accessorVars, btc, console, files, net>>

NextEVM ==
  \/ \E n \in 1..MaxEvmAddresses : CheckEVMChains(n)
  \/ \E k \in 1..MaxEvmAddresses : LimitRun(k)
  \/ \E k \in 1..MaxEvmAddresses : \E reply \in Replies(k) :
       GetBalanceSettles(k, reply)
  \/ \E k \in 1..MaxEvmAddresses : DelayElapsed(k)
  \/ \E k \in 1..MaxEvmAddresses : RaceTimeout(k)

InitEVM ==
  /\ Init
  /\ badKey = NoBadKey

SpecEVM == InitEVM /\ [][NextEVM]_vars

(***************************************************************************)
(* checkBitcoin (src/src/report.js, the Bitcoin checker): the addresses    *)
(* one after another, each through getBTCBalance and its two retryRequest  *)
(* calls.                                                                  *)
(***************************************************************************)
\* maxRetries = 3, the default of the Bitcoin retryRequest and the value of
\* both its calls.
BtcMaxRetries == 3

\* Fault: the same delay before every attempt.
retryDelay_Fixed(k) == 2000

\* setTimeout(resolve, 2000 * (i + 1))
retryDelay(k) == 2000 * (k + 1)

\* The Bitcoin list of a 12-word mnemonic with count 1: the segwit and the
\* legacy address of index 0.
BitcoinList ==
  LET s == mnemonicToSeedSync(Mnemonic("M12", 12, TRUE, TRUE))
  IN [k \in 1..Len(DefaultPaths["bitcoin"]) |->
        Address(paymentType(pathFn(DefaultPaths["bitcoin"][k], 0)), s,
                pathFn(DefaultPaths["bitcoin"][k], 0))]

\* What is logged for an address: a request to an API, its answer, a wait.
Requested(api) == [e |-> "request", api |-> api, ok |-> FALSE, ms |-> 0]
Answered(api, ok) == [e |-> "answer", api |-> api, ok |-> ok, ms |-> 0]
Waited(ms) == [e |-> "wait", api |-> "none", ok |-> FALSE, ms |-> ms]

\* What a request for an address is answered with: chain_stats with a
\* balance, with past transactions only, with neither, or an error.
BtcReplies == {"funded", "used", "empty", "failed"}

BtcLine(text) == Line(text, {})

\* The top of the loop of retryRequest for the API b.api: fn is called
\* while i < maxRetries; after the loop the function ends without a value
\* (and getBTCBalance returns undefined).
BtcAttempt(b) ==
  IF b.i < BtcMaxRetries
    THEN [b EXCEPT !.step = "inflight",
                   !.log[b.at] = Append(@, Requested(b.api))]
    ELSE [b EXCEPT !.step = "undefined"]

\* for (const address of addresses): getBTCBalance of the next address
\* starts with Blockstream, or the list is done.
BtcNextAddress(b) ==
  IF b.at < Len(b.list)
    THEN BtcAttempt([b EXCEPT !.at = @ + 1, !.api = "blockstream", !.i = 0])
    ELSE [b EXCEPT !.at = Len(b.list) + 1, !.api = "none", !.i = 0,
                   !.step = "returned"]

\* results.bitcoin[address] = {...} of the address in progress.
BtcRecord(b, response) ==
  [b EXCEPT !.results =
     (b.list[b.at] :> bitcoinRecord(b.list[b.at], response)) @@ @]

\* The closing line of checkBitcoin, once the loop over the list has ended.
BtcClosing(b) ==
  IF b.step = "returned"
    THEN << Line("Found funds in ${withFunds} address(es) / No funds found",
                 {"addressCount"}) >>
    ELSE <<>>

\* A caller invokes checkBitcoin(list).
CheckBitcoin(list) ==
  /\ btc.at = 0
  /\ task = <<>>
  /\ pc = "idle"
  /\ apc = "none"
  /\ kpc = "idle"
  /\ btc' = BtcNextAddress([NoBtc EXCEPT !.list = list,
                                         !.log = [k \in 1..Len(list) |-> <<>>]])
  /\ console' = Append(console, BtcLine("Checking Bitcoin mainnet..."))
  /\ UNCHANGED <<engineVars, auditVars, accessorVars, task, files, net>>

\* return await fn() of retryRequest and its catch, the catch blocks of
\* getBTCBalance and the loop body of checkBitcoin after getBTCBalance.
BtcSettles(reply) ==
  /\ btc.step = "inflight"
  /\ LET b == [btc EXCEPT
                 !.log[btc.at] = Append(@, Answered(btc.api, reply # "failed"))]
     IN IF reply # "failed"
          THEN /\ btc' = [BtcRecord(b, reply) EXCEPT !.step = "pause"]
               /\ console' =
                    IF bitcoinRecord(b.list[b.at], reply).hasActivity
                      THEN Append(console,
                                  Line("${address}: ${balance} BTC (${n} txs)",
                                       {"address", "balance", "addressCount"}))
                      ELSE console
          ELSE IF ~isLastAttempt(b.i, BtcMaxRetries)
            THEN /\ btc' = [b EXCEPT !.step = "delay"]
                 /\ UNCHANGED console
          ELSE IF b.api = "blockstream"
            THEN /\ btc' = BtcAttempt([b EXCEPT !.api = "mempool", !.i = 0])
                 /\ console' =
                      Append(console,
                             BtcLine("Blockstream API failed, trying Mempool.space..."))
          ELSE /\ btc' = BtcNextAddress(BtcRecord(b, "failed"))
               /\ console' =
                    Append(console,
                           Line("Error checking ${address}: ${error.message}",
                                {"address", "errorMessage"}))
                      \o BtcClosing(btc')
  /\ UNCHANGED <<engineVars, auditVars, accessorVars, task, files, net>>

\* The delay of retryRequest has passed: i++ and the next pass of the loop.
BtcDelayElapsed ==
  /\ btc.step = "delay"
  /\ btc' = BtcAttempt([btc EXCEPT
                          !.log[btc.at] = Append(@, Waited(retryDelay(btc.i))),
                          !.i = @ + 1])
  /\ UNCHANGED <<engineVars, auditVars, accessorVars, task, console, files, net>>

\* The 500 ms after a record have passed: the next address, or the end of
\* the loop.
BtcPause ==
  /\ btc.step = "pause"
  /\ btc' = BtcNextAddress(btc)
  /\ console' = console \o BtcClosing(btc')
  /\ UNCHANGED <<engineVars, auditVars, accessorVars, task, files, net>>

NextBitcoin ==
  \/ CheckBitcoin(BitcoinList)
  \/ \E reply \in BtcReplies : BtcSettles(reply)
  \/ BtcDelayElapsed
  \/ BtcPause

InitBitcoin ==
  /\ Init
  /\ badKey = NoBadKey

SpecBitcoin == InitBitcoin /\ [][NextBitcoin]_vars

(***************************************************************************)
(* Reference definitions for the properties                                *)
(***************************************************************************)
Finished == pc = "idle" /\ outcome.status # "none"
HasReturned == pc = "idle" /\ outcome.status = "returned"

\* The candidates of family f in generation order: index in the outer loop,
\* the templates of the table in declared order in the inner loop.
Attempts(f, paths, s, n) ==
  LET T == Len(paths[f])
  IN [k \in 1..(n * T) |->
        candidate(f, s, pathFn(paths[f][((k - 1) % T) + 1], (k - 1) \div T))]

\* The position of the first candidate that yields address a.
FirstGenerated(a, attempts) ==
  CHOOSE k \in 1..Len(attempts) :
    /\ attempts[k] = Ok(a)
    /\ \A j \in 1..(k - 1) : attempts[j] # Ok(a)

RECURSIVE FirstOccurrences(_, _)
\* The addresses of the candidates that succeed, each at its first occurrence.
FirstOccurrences(attempts, k) ==
  IF k = 0 THEN <<>>
  ELSE LET before == FirstOccurrences(attempts, k - 1)
       IN IF attempts[k].ok /\ attempts[k].address \notin Range(before)
            THEN Append(before, attempts[k].address)
            ELSE before

Expected(f, paths, s, n) ==
  LET attempts == Attempts(f, paths, s, n)
  IN FirstOccurrences(attempts, Len(attempts))

\* What a call gave for family f: its sequence, or nothing when it threw.
Output(o, f) ==
  IF o.status = "returned"
    THEN [produced |-> TRUE, list |-> o.value[f]]
    ELSE [produced |-> FALSE, list |-> <<>>]

\* The last call and the remembered call had the same arguments.
SameArguments ==
  /\ later
  /\ Finished
  /\ remembered.seedPhrase = seedPhrase
  /\ remembered.count = count

(***************************************************************************)
(* Properties                                                              *)
(***************************************************************************)
\* C1: the sequence deriveAddresses returns for a family holds no address
\* twice; of candidates with the same address only the first is kept.
C1_NoDuplicateAddress ==
  HasReturned =>
    \A f \in FamilySet :
      \A p, q \in 1..Len(outcome.value[f]) :
        p # q => outcome.value[f][p] # outcome.value[f][q]

\* Two candidates of one family gave the same address and the returned
\* sequence holds it once.
C1_Witness ==
  /\ HasReturned
  /\ \E f \in FamilySet :
       LET attempts == Attempts(f, DERIVATION_PATHS, seed, count)
       IN \E j, k \in 1..Len(attempts) :
            /\ j < k
            /\ attempts[j].ok
            /\ attempts[j] = attempts[k]
            /\ attempts[j].address \in Range(outcome.value[f])

\* C2: a family's sequence is in generation order: every address in it was
\* generated, and of two addresses the one first generated earlier (index
\* outer, template inner) stands earlier.
C2_GenerationOrder ==
  HasReturned =>
    \A f \in FamilySet :
      LET attempts == Attempts(f, DERIVATION_PATHS, seed, count)
          list == outcome.value[f]
      IN /\ \A p \in 1..Len(list) : Ok(list[p]) \in Range(attempts)
         /\ \A p, q \in 1..Len(list) :
              p < q =>
                FirstGenerated(list[p], attempts)
                  < FirstGenerated(list[q], attempts)

\* A returned sequence with addresses of two indexes and of two templates.
C2_Witness ==
  /\ HasReturned
  /\ count >= 2
  /\ DERIVATION_PATHS = DefaultPaths
  /\ Len(outcome.value["bitcoin"]) >= 4

\* C3 (as claimed): in every family a failing candidate is only skipped:
\* the call returns, and every family's sequence is that of the candidates
\* that succeed.
C3_FailureSkipsCandidateOnly ==
  (Finished /\ validateMnemonic(seedPhrase)) =>
    /\ outcome.status = "returned"
    /\ \A f \in FamilySet :
         Output(outcome, f).list = Expected(f, DERIVATION_PATHS, seed, count)

\* C4: an invalid mnemonic makes deriveAddresses throw before the seed is
\* computed and before any family is derived; no Address Set, not even a
\* partial one, is produced.
C4_InvalidMnemonicRejectedFirst ==
  (pc # "idle" \/ Finished) /\ ~validateMnemonic(seedPhrase) =>
    /\ pc \in {"validate", "idle"}
    /\ seed = NoSeed
    /\ result = EmptyObject
    /\ pc = "idle" => outcome = Threw("Invalid BIP39 seed phrase")

\* A call with an invalid mnemonic has ended.
C4_Witness ==
  /\ Finished
  /\ ~validateMnemonic(seedPhrase)
  /\ outcome.status = "threw"

\* C5 (as claimed): a mnemonic of other than 12 or 24 words makes
\* deriveAddresses throw the invalid-mnemonic error.
C5_Only12Or24Words ==
  (Finished /\ seedPhrase.words \notin {12, 24}) =>
    outcome = Threw("Invalid BIP39 seed phrase")

\* C6: two calls with the same mnemonic and count (and the same table) end
\* the same way, with the same Address Set.
C6_Deterministic ==
  (SameArguments /\ remembered.paths = DERIVATION_PATHS) =>
    outcome = remembered.outcome

\* A second call with a valid mnemonic and a positive count has returned.
C6_Witness ==
  /\ SameArguments
  /\ remembered.paths = DERIVATION_PATHS
  /\ outcome.status = "returned"
  /\ count >= 1
  /\ \A f \in {"evm", "sui"} : Len(outcome.value[f]) >= 1

C10_CrossFamilyIndependence ==
  SameArguments =>
    \A g \in FamilySet :
      (\A f \in FamilySet \ {g} : remembered.paths[f] = DERIVATION_PATHS[f]) =>
        \A f \in FamilySet \ {g} :
          Output(outcome, f) = Output(remembered.outcome, f)

\* C11: whenever deriveAddresses returns, the object has exactly the keys
\* evm, solana, bitcoin, stacks, sui and aptos, and each key holds a
\* (possibly empty) sequence of addresses.
C11_SixKeys ==
  HasReturned =>
    /\ DOMAIN outcome.value =
         {"evm", "solana", "bitcoin", "stacks", "sui", "aptos"}
    /\ \A f \in DOMAIN outcome.value :
         /\ DOMAIN outcome.value[f] = 1..Len(outcome.value[f])
         /\ \A k \in DOMAIN outcome.value[f] :
              outcome.value[f][k].enc \in
                {"evm-checksum-hex", "solana-base58", "p2wpkh", "p2sh-p2wpkh",
                 "p2pkh", "SP+evm-hex", "sui-hex", "aptos-authkey-hex"}

\* A call has returned an object in which one family's sequence is empty
\* and another's is not.
C11_Witness ==
  /\ HasReturned
  /\ count >= 1
  /\ \E f, g \in DOMAIN outcome.value :
       outcome.value[f] = <<>> /\ outcome.value[g] # <<>>

\* C12 (as claimed): derivePrivateKey returns key material derived along
\* the family's template at index for every chain that has an entry in the
\* table, and throws the unsupported-family error exactly when the chain
\* has none.
C12_KeyForEveryRegisteredFamily ==
  (kpc = "idle" /\ keyOutcome.status # "none") =>
    IF keyCall.chain \in DOMAIN DERIVATION_PATHS
      THEN /\ keyOutcome.status = "returned"
           /\ \E k \in 1..Len(DERIVATION_PATHS[keyCall.chain]) :
                keyOutcome.key.path =
                  pathFn(DERIVATION_PATHS[keyCall.chain][k], keyCall.index)
      ELSE keyOutcome =
             KeyThrew("Private key derivation not implemented for ${chain}")

\* C13 (as claimed): when the --addresses option is not an integer between
\* 1 and 100, the run prints the error and exits with code 1, and the prompt,
\* the seed file read, deriveAddresses and the checks are never started.
C13_CountValidatedFirst ==
  ~(argv.kind = "integer" /\ argv.n >= 1 /\ argv.n <= 100) =>
    /\ apc \in {"cli", "exited"}
    /\ apc = "exited" => exitCode = 1 /\ console = <<InvalidCountLine>>
    /\ pc = "idle"
    /\ outcome = NoOutcome
    /\ net = <<>>

AuditProceeded ==
  \/ \E k \in 1..Len(console) : console[k] = LoadingLine
  \/ seedPhrase # NoMnemonic
  \/ pc # "idle"
  \/ outcome # NoOutcome
  \/ net # <<>>
  \/ files # <<>>

LoadErrorLines == {LoadErrorLine(file) : file \in SeedFiles}

\* C15: in an audit run nothing is sent, no check is called and no file is
\* written until deriveAddresses has returned the complete Address Set; when
\* the mnemonic is invalid the run can only end with exit code 1, without a
\* check, a request or a report file.
C15_DerivationBeforeNetwork ==
  /\ (net # <<>> \/ calls # <<>> \/ files # <<>> \/ report.written) =>
       /\ pc = "idle"
       /\ outcome.status = "returned"
       /\ DOMAIN outcome.value = FamilySet
  /\ (seedPhrase # NoMnemonic /\ ~validateMnemonic(seedPhrase)) =>
       /\ apc \in {"deriving", "exited"}
       /\ apc = "exited" => exitCode = 1
       /\ net = <<>> /\ calls = <<>> /\ files = <<>> /\ ~report.written
  /\ (\E k \in 1..Len(console) : console[k] \in LoadErrorLines) =>
       /\ apc = "exited" /\ exitCode = 1
       /\ net = <<>> /\ calls = <<>> /\ files = <<>> /\ ~report.written

\* A run with a 12-word phrase that is no valid mnemonic has ended with exit
\* code 1 after deriveAddresses threw.
C15_Witness ==
  /\ apc = "exited"
  /\ exitCode = 1
  /\ seedPhrase.words = 12
  /\ outcome = Threw("Invalid BIP39 seed phrase")

\* The family whose list a check is to read, by the check's name.
OwnFamily(name) ==
  CASE name = "EVM Chains" -> "evm"
    [] name = "Solana" -> "solana"
    [] name = "Bitcoin" -> "bitcoin"
    [] name = "Sui" -> "sui"
    [] name = "Aptos" -> "aptos"
    [] name = "Stacks" -> "stacks"

\* C16: once deriveAddresses has returned, the Address Set stays what the
\* derivation produced (nothing added, removed or reordered), and each
\* checker reads only its own family's sequence: it queries and reports on
\* addresses of that sequence only.
C16_AddressSetImmutable ==
  apc \in {"check", "awaitCheck", "report", "summary", "done"} =>
    /\ \A f \in FamilySet :
         outcome.value[f] = Expected(f, DERIVATION_PATHS, seed, count)
    /\ \A k \in 1..Len(net) :
         net[k].address # NoAddress =>
           net[k].address \in Range(outcome.value[OwnFamily(net[k].to)])
    /\ \A chain \in DOMAIN results.results :
         DOMAIN results.results[chain]
           \subseteq Range(outcome.value[familyOf(chain)])

\* An audit has run to its end with every check settled without a throw and
\* a record for every address of every family.
C16_Witness ==
  /\ apc = "done"
  /\ count >= 1
  /\ \A k \in 1..Len(settled) : settled[k].status # "threw"
  /\ \A chain \in Range(ChainOrder) :
       /\ chain \in DOMAIN results.results
       /\ DOMAIN results.results[chain]
            = Range(outcome.value[familyOf(chain)])
       /\ DOMAIN results.results[chain] # {}

\* The chains whose records a check returns.
ChainsOf(name) ==
  IF name = "EVM Chains" THEN Range(EVM_CHAINS) ELSE {OwnFamily(name)}

\* The checkers have returned and generateReport has not yet begun.
RecordsAsReturned == apc \in {"check", "awaitCheck", "report"}

\* C17 (as claimed): a checker returns exactly one record for every address
\* of its list, keyed by that address; a failed query gives an error record
\* with nativeBalance "0", hasActivity false and the error message, and the
\* other addresses are still checked.
C17_OneRecordPerAddress ==
  RecordsAsReturned =>
    \A k \in 1..Len(settled) :
      settled[k].status # "threw" =>
        \A chain \in ChainsOf(settled[k].name) :
          LET list == outcome.value[OwnFamily(settled[k].name)]
          IN /\ chain \in DOMAIN results.results
             /\ DOMAIN results.results[chain] = Range(list)
             /\ \A a \in Range(list) :
                  LET data == results.results[chain][a]
                  IN /\ data.address = a
                     /\ Query(settled[k].status, IndexOf(list, a))
                          = "failed" =>
                          /\ "error" \in DOMAIN data
                          /\ data.nativeBalance = "0"
                          /\ ~data.hasActivity

\* C18 (as claimed): every record a checker returns has the fields
\* nativeBalance, nativeSymbol, tokens, hasActivity and usdValue, and has the
\* field error only when the query for its address failed.
C18_RecordFields ==
  RecordsAsReturned =>
    \A k \in 1..Len(settled) :
      settled[k].status # "threw" =>
        \A chain \in ChainsOf(settled[k].name) :
          LET list == outcome.value[OwnFamily(settled[k].name)]
          IN \A a \in DOMAIN results.results[chain] :
               LET data == results.results[chain][a]
               IN /\ {"nativeBalance", "nativeSymbol", "tokens",
                       "hasActivity", "usdValue"} \subseteq DOMAIN data
                  /\ "error" \in DOMAIN data =>
                       Query(settled[k].status, IndexOf(list, a)) = "failed"

\* C19 (as claimed): report.json holds the record of every chain and every
\* address that was checked, the addresses with zero balance included.
C19_ReportComplete ==
  report.written =>
    \A chain \in DOMAIN results.results :
      /\ chain \in DOMAIN report.addressesWithFunds
      /\ \A a \in DOMAIN results.results[chain] :
           a \in DOMAIN report.addressesWithFunds[chain]

C21_CheckErrorKept ==
  apc \in {"summary", "done"} =>
    \A k \in 1..Len(settled) :
      settled[k].status = "threw" =>
        /\ \E j \in 1..Len(results.summary.errors) :
             results.summary.errors[j] =
               [chain |-> settled[k].name, error |-> "check failed"]
        /\ \E j \in 1..Len(report.summary.errors) :
             report.summary.errors[j] =
               [chain |-> settled[k].name, error |-> "check failed"]

\* C22: for every address, the EVM retryRequest calls fn at most maxRetries
\* (2) times; a call follows only a failure that is not an authentication
\* error, after one delay; the first success is returned without another
\* call; an authentication error and the error of the last attempt are
\* rethrown; retryRequest settles with a result of fn or an error of fn,
\* never without one.
C22_RetryRequest ==
  \A k \in DOMAIN task :
    LET tk == task[k]
        n == Len(tk.replies)
    IN /\ tk.called <= MaxRetries
       /\ n <= tk.called
       /\ tk.called <= n + 1
       /\ (tk.rr = "idle") = (tk.called = 0)
       /\ (tk.rr = "inflight") = (tk.called = n + 1)
       /\ \A j \in 1..(tk.called - 1) :
            ~tk.replies[j].ok /\ ~isAuthError(tk.replies[j].error)
       /\ tk.waited = (IF tk.called = 0 THEN 0 ELSE tk.called - 1)
       /\ tk.rr = "delay" =>
            /\ n = tk.called
            /\ n < MaxRetries
            /\ ~tk.replies[n].ok /\ ~isAuthError(tk.replies[n].error)
       /\ tk.rr = "resolved" =>
            /\ n = tk.called
            /\ tk.replies[n].ok
            /\ tk.value = tk.replies[n].balance
            /\ tk.thrown = NoError
       /\ tk.rr = "rejected" =>
            /\ n = tk.called
            /\ ~tk.replies[n].ok
            /\ tk.thrown = tk.replies[n].error
            /\ tk.value = "none"
            /\ isAuthError(tk.thrown) \/ n = MaxRetries
       /\ (n = tk.called /\ n >= 1) =>
            /\ tk.replies[n].ok => tk.rr = "resolved"
            /\ (~tk.replies[n].ok /\ isAuthError(tk.replies[n].error)) =>
                 tk.rr = "rejected"
            /\ (~tk.replies[n].ok /\ n = MaxRetries) => tk.rr = "rejected"

\* One retryRequest rethrew an authentication error after its first call,
\* one returned the result of its second call, and one rethrew the error of
\* its second call.
C22_Witness ==
  /\ \E k \in DOMAIN task :
       /\ task[k].rr = "rejected"
       /\ task[k].called = 1
       /\ task[k].thrown.code = "BAD_DATA"
  /\ \E k \in DOMAIN task :
       /\ task[k].rr = "resolved"
       /\ task[k].called = 2
       /\ task[k].waited = 1
  /\ \E k \in DOMAIN task :
       /\ task[k].rr = "rejected"
       /\ task[k].called = 2
       /\ ~isAuthError(task[k].thrown)

\* The positions in an address's log of the requests to an API, and of its
\* answers that are failures.
RequestsTo(log, api) ==
  {p \in 1..Len(log) : log[p].e = "request" /\ log[p].api = api}
FailuresOf(log, api) ==
  {p \in 1..Len(log) : log[p] = Answered(api, FALSE)}

\* C23: for each Bitcoin address getBTCBalance queries Blockstream at most 3
\* times, waiting 2 s and then 4 s between attempts, and Mempool.space only
\* after three failed Blockstream attempts, again at most 3 times; nothing
\* is requested after a success; "All Bitcoin APIs failed" is raised only
\* after three failures of each API; at most 6 requests per address.
C23_BitcoinFallback ==
  \A a \in DOMAIN btc.log :
    LET log == btc.log[a]
        apis == {"blockstream", "mempool"}
    IN /\ \A api \in apis : Cardinality(RequestsTo(log, api)) <= 3
       /\ Cardinality(RequestsTo(log, "blockstream") \cup
                      RequestsTo(log, "mempool")) <= 6
       /\ \A p \in RequestsTo(log, "mempool") :
            /\ Cardinality({q \in FailuresOf(log, "blockstream") : q < p}) = 3
            /\ \A q \in 1..Len(log) : log[q] # Answered("blockstream", TRUE)
       /\ \A p \in 1..Len(log) :
            (log[p].e = "answer" /\ log[p].ok) => p = Len(log)
       /\ \A api \in apis :
            \A p \in RequestsTo(log, api) :
              LET nth == Cardinality({q \in RequestsTo(log, api) : q <= p})
              IN /\ nth = 1 => (p = 1 \/ log[p - 1].e = "answer")
                 /\ nth = 2 => log[p - 1] = Waited(2000)
                 /\ nth = 3 => log[p - 1] = Waited(4000)
       /\ \A p \in 1..Len(log) :
            log[p].e = "wait" =>
              /\ p > 1 /\ p < Len(log)
              /\ log[p - 1].e = "answer" /\ ~log[p - 1].ok
              /\ log[p + 1] = Requested(log[p - 1].api)
       /\ ( /\ btc.list[a] \in DOMAIN btc.results
            /\ "error" \in DOMAIN btc.results[btc.list[a]] ) =>
            /\ btc.results[btc.list[a]].error = "All Bitcoin APIs failed"
            /\ \A api \in apis : Cardinality(FailuresOf(log, api)) = 3
       /\ ( /\ btc.list[a] \in DOMAIN btc.results
            /\ "error" \notin DOMAIN btc.results[btc.list[a]] ) =>
            /\ log # <<>>
            /\ log[Len(log)].e = "answer" /\ log[Len(log)].ok
       /\ btc.list[a] \in DOMAIN btc.results <=>
            (a < btc.at \/ (a = btc.at /\ btc.step = "pause"))

\* checkBitcoin has returned: for the first address both APIs failed three
\* times each, for the second Blockstream failed three times and
\* Mempool.space answered at its second attempt.
C23_Witness ==
  /\ btc.step = "returned"
  /\ Len(btc.list) = 2
  /\ Cardinality(RequestsTo(btc.log[1], "blockstream")) = 3
  /\ Cardinality(RequestsTo(btc.log[1], "mempool")) = 3
  /\ "error" \in DOMAIN btc.results[btc.list[1]]
  /\ btc.results[btc.list[1]].error = "All Bitcoin APIs failed"
  /\ Cardinality(RequestsTo(btc.log[2], "blockstream")) = 3
  /\ Cardinality(RequestsTo(btc.log[2], "mempool")) = 2
  /\ btc.results[btc.list[2]].nativeBalance = "1"

\* C24 (as claimed): during checkEVMChains at most 3 balance requests are
\* in flight at any moment, for any number of addresses and any interleaving
\* of responses, retries and 15-second timeouts.
C24_AtMostThreeInFlight == InFlight <= 3

\* The addresses of a chain whose record has hasActivity true and a native
\* balance above zero.
WithBalance(chain) ==
  { a \in DOMAIN results.results[chain] :
      /\ results.results[chain][a].hasActivity
      /\ parseFloat(results.results[chain][a].nativeBalance) > 0 }

C26_SummaryAgreesWithList ==
  report.written =>
    LET listed == entries(ChainOrder, report.addressesWithFunds)
    IN /\ Range(report.summary.chainsWithFunds)
            = DOMAIN report.addressesWithFunds
       /\ report.summary.addressesWithFunds
            = Sum([k \in 1..Len(listed) |->
                     Cardinality(DOMAIN report.addressesWithFunds[listed[k]])])

\* The segwit and the legacy Bitcoin address of index k under seed s.
Segwit(s, k) ==
  Address("p2wpkh", s, <<H(84), H(0), H(0), N(0), N(k)>>)
Legacy(s, k) ==
  Address("p2pkh", s, <<H(44), H(0), H(0), N(0), N(k)>>)

MostAddresses(f) ==
  IF count <= 0 THEN 0 ELSE count * Len(DERIVATION_PATHS[f])

\* What holds of C28 in every call: a family's list is never longer than
\* count times the number of its templates, no more candidates than that
\* are attempted, and the lists are empty for a count of zero.
C28_WithinBounds ==
  (pc # "idle" \/ Finished) =>
    /\ \A f \in FamilySet : attempted[f] <= MostAddresses(f)
    /\ \A f \in DOMAIN result : Len(result[f]) <= MostAddresses(f)
    /\ HasReturned =>
         \A f \in FamilySet : Len(outcome.value[f]) <= MostAddresses(f)

\* C28 (as claimed): a call with a valid mnemonic ends having attempted
\* exactly count x (number of templates of the family) candidates in every
\* family, and every family's list has at most that many addresses (none
\* for a count of zero or less).
C28_EveryCandidateAttempted ==
  (Finished /\ validateMnemonic(seedPhrase)) =>
    \A f \in FamilySet :
      /\ attempted[f] = MostAddresses(f)
      /\ Len(Output(outcome, f).list) <= MostAddresses(f)

\* C8: in an audit run the mnemonic, the seed and the private keys appear in
\* no console line, no file written and no request sent, and the Address
\* Set (finished or under construction) holds public addresses only; every
\* address sent in a request is one of the Address Set.
Secrets == {"mnemonic", "seed", "privateKey"}

PublicEncodings ==
  {"evm-checksum-hex", "solana-base58", "p2wpkh", "p2sh-p2wpkh", "p2pkh",
   "SP+evm-hex", "sui-hex", "aptos-authkey-hex"}

AddressesOf(v) == UNION {Range(v[f]) : f \in DOMAIN v}

====
